---------------------------- MODULE Spec2Model ----------------------------
(***************************************************************************)
(* A model of the fleetimporter repository's tested logic:                 *)
(*   - the policy-artifact functions slugify, format_policy_name and       *)
(*     build_version_query (tests/test_auto_update.py);                    *)
(*   - StyleGuideValidator (tests/test_style_guide_compliance.py);         *)
(*   - update_recipe (update_recipes.py).                                  *)
(* A text is a sequence of one-character strings.  A path or an            *)
(* identifier is a sequence of tokens (names and the separators "/", "."   *)
(* and " "), so that endswith / startswith / "in" become suffix / prefix / *)
(* contiguous-subsequence tests on the tokens.                             *)
(***************************************************************************)
EXTENDS Integers, Sequences, FiniteSets, TLC

VARIABLES
    \* ---- policy-artifact functions: the arguments and the values returned
    text,            \* slugify's argument
    template,        \* format_policy_name's first argument
    software_title,  \* format_policy_name's / build_version_query's title
    version,         \* build_version_query's second argument
    slug,            \* slugify(text)
    reslug,          \* slugify(slug)
    policy_name,     \* format_policy_name(template, software_title)
    query,           \* build_version_query(software_title, version)
    bpc,             \* which of the calls above have returned
    \* ---- StyleGuideValidator: the fields set by __init__ ...
    errors,
    warnings,
    recipe_count,
    direct_count,
    gitops_count,
    \* ... and what the run around it observes
    raised,          \* the exception that left validate_recipe, or "none"
    exit_code,       \* report_results' return value, -1 before it returns
    calls,           \* the (recipe_path, file) arguments of the calls made, in order
    \* ---- validate_all_recipes
    recipe_files,    \* the files glob found, in the order it found them
    todo,            \* the files the loop has still to validate, in loop order
    run_pc,          \* validate_all_recipes: "idle" before the call, then "loop"
    \* ---- update_recipes.py
    content,         \* the text of the recipe file, a sequence of lines
    returned         \* the values update_recipe returned, call after call

builder_vars == <<text, template, software_title, version, slug, reslug,
                  policy_name, query, bpc>>
validator_vars == <<errors, warnings, recipe_count, direct_count, gitops_count,
                    raised, exit_code, calls>>
run_vars == <<recipe_files, todo, run_pc>>
updater_vars == <<content, returned>>
vars == <<builder_vars, validator_vars, run_vars, updater_vars>>

----------------------------------------------------------------------------
(* Generic helpers on sequences.                                           *)

\* All sequences over S of length at most n.
SeqsUpTo(S, n) == UNION {[1..k -> S] : k \in 0..n}

\* sub in s, as Python's "in" on strings: sub occurs contiguously in s.
Contains(s, sub) ==
    \E i \in 1..(Len(s) - Len(sub) + 1) : SubSeq(s, i, i + Len(sub) - 1) = sub

\* s.startswith(pre)
StartsWith(s, pre) == Len(pre) <= Len(s) /\ SubSeq(s, 1, Len(pre)) = pre

\* s.endswith(suf)
EndsWith(s, suf) ==
    Len(suf) <= Len(s) /\ SubSeq(s, Len(s) - Len(suf) + 1, Len(s)) = suf

\* The concatenation of the sequences of a sequence of sequences.
RECURSIVE Flatten(_)
Flatten(ss) == IF ss = <<>> THEN <<>> ELSE Head(ss) \o Flatten(Tail(ss))

\* s.count(c) for a one-character c.
Count(s, c) == Cardinality({i \in 1..Len(s) : s[i] = c})

\* str.replace(old, new) for a non-empty old: the occurrences of old are found
\* scanning from the left, each search resuming after the previous match.
RECURSIVE str_replace(_, _, _)
str_replace(s, old, new) ==
    IF Len(s) < Len(old) THEN s
    ELSE IF SubSeq(s, 1, Len(old)) = old
         THEN new \o str_replace(SubSeq(s, Len(old) + 1, Len(s)), old, new)
         ELSE <<Head(s)>> \o str_replace(Tail(s), old, new)

----------------------------------------------------------------------------
(* Character classes of the regular expressions in slugify.                *)

UpperChars == {"A", "N", "M", "E"}
LowerChars == {"a", "b", "n", "m", "e"}
DigitChars == {"1"}
SpaceChars == {" "}

\* str.lower() on one character.
Lower(c) ==
    CASE c = "A" -> "a"
      [] c = "N" -> "n"
      [] c = "M" -> "m"
      [] c = "E" -> "e"
      [] OTHER -> c

\* \w : letters, digits and the underscore.
IsWord(c) == c \in UpperChars \cup LowerChars \cup DigitChars \cup {"_"}

\* \s
IsSpace(c) == c \in SpaceChars

\* [\w\s-] : what the first re.sub keeps.
IsKept(c) == IsWord(c) \/ IsSpace(c) \/ c = "-"

\* [\s_-] : what the second re.sub collapses.
IsSeparator(c) == IsSpace(c) \/ c = "_" \/ c = "-"

IsHyphen(c) == c = "-"

\* s without its leading run of separators / of hyphens.
RECURSIVE drop_separators(_)
drop_separators(s) ==
    IF s # <<>> /\ IsSeparator(Head(s)) THEN drop_separators(Tail(s)) ELSE s

RECURSIVE drop_hyphens(_)
drop_hyphens(s) ==
    IF s # <<>> /\ IsHyphen(Head(s)) THEN drop_hyphens(Tail(s)) ELSE s

Reverse(s) == [i \in 1..Len(s) |-> s[Len(s) + 1 - i]]

\* text.lower()
str_lower(s) == [i \in 1..Len(s) |-> Lower(s[i])]

\* re.sub(r"[^\w\s-]", "", text)
remove_special(s) == SelectSeq(s, IsKept)

\* re.sub(r"[\s_-]+", "-", text): every maximal run of separators becomes one hyphen.
RECURSIVE collapse_separators(_)
collapse_separators(s) ==
    IF s = <<>> THEN <<>>
    ELSE IF IsSeparator(Head(s))
         THEN <<"-">> \o collapse_separators(drop_separators(s))
         ELSE <<Head(s)>> \o collapse_separators(Tail(s))

\* re.sub(r"^-+|-+$", "", text)
strip_hyphens(s) == Reverse(drop_hyphens(Reverse(drop_hyphens(s))))

\* Mutants of slugify: the final strip left out; the strip done before the collapse.
slugify_no_strip(t) == collapse_separators(remove_special(str_lower(t)))
slugify_strip_first(t) ==
    collapse_separators(strip_hyphens(remove_special(str_lower(t))))

slugify(t) == strip_hyphens(collapse_separators(remove_special(str_lower(t))))

----------------------------------------------------------------------------
(* format_policy_name and build_version_query.                             *)

PLACEHOLDER == <<"%", "N", "A", "M", "E", "%">>

\* Mutant: template.replace("%NAME%", slug, 1).
RECURSIVE replace_first(_, _, _)
replace_first(s, old, new) ==
    IF Len(s) < Len(old) THEN s
    ELSE IF SubSeq(s, 1, Len(old)) = old
         THEN new \o SubSeq(s, Len(old) + 1, Len(s))
         ELSE <<Head(s)>> \o replace_first(Tail(s), old, new)
format_policy_name_first_only(tpl, title) ==
    replace_first(tpl, PLACEHOLDER, slugify(title))

format_policy_name(tpl, title) == str_replace(tpl, PLACEHOLDER, slugify(title))

QUOTE == "'"
QUERY_HEAD == <<"S", "E", "L", "E", "C", "T", " ", "*", " ", "F", "R", "O", "M",
                " ", "p", "r", "o", "g", "r", "a", "m", "s", " ", "W", "H", "E",
                "R", "E", " ", "n", "a", "m", "e", " ", "=", " ", "'">>
QUERY_MID == <<"'", " ", "A", "N", "D", " ", "v", "e", "r", "s", "i", "o", "n",
               " ", "!", "=", " ", "'">>
QUERY_TAIL == <<"'">>

\* Mutant: only the first quote of each value is doubled (replace(..., 1)).
build_version_query_first_quote(title, ver) ==
    QUERY_HEAD \o replace_first(title, <<QUOTE>>, <<QUOTE, QUOTE>>)
               \o QUERY_MID
               \o replace_first(ver, <<QUOTE>>, <<QUOTE, QUOTE>>) \o QUERY_TAIL

\* Mutant: the version is interpolated without escaping.
build_version_query_raw_version(title, ver) ==
    QUERY_HEAD \o str_replace(title, <<QUOTE>>, <<QUOTE, QUOTE>>)
               \o QUERY_MID \o ver \o QUERY_TAIL

build_version_query(title, ver) ==
    LET escaped_title == str_replace(title, <<QUOTE>>, <<QUOTE, QUOTE>>)
        escaped_version == str_replace(ver, <<QUOTE>>, <<QUOTE, QUOTE>>)
    IN  QUERY_HEAD \o escaped_title \o QUERY_MID \o escaped_version \o QUERY_TAIL

----------------------------------------------------------------------------
(* StyleGuideValidator.                                                    *)
(* A validator state is a record of the object's fields plus "raised", the *)
(* exception that is propagating ("none" while there is none).  A report   *)
(* entry is [file, msg, arg]: the recipe path, the message's fixed text,   *)
(* and the values interpolated into it.                                    *)

SUPPORTED_CATEGORIES == {"Browsers", "Communication", "Developer tools", "Productivity"}

\* __init__
NewValidator ==
    [errors |-> <<>>, warnings |-> <<>>, recipe_count |-> 0, direct_count |-> 0,
     gitops_count |-> 0, raised |-> "none"]

Entry(recipe_path, msg, arg) == [file |-> recipe_path, msg |-> msg, arg |-> arg]

\* self.errors.append(f"{recipe_path}: ...")
AddError(st, recipe_path, msg, arg) ==
    [st EXCEPT !.errors = Append(@, Entry(recipe_path, msg, arg))]

\* self.warnings.append(f"{recipe_path}: ...")
AddWarning(st, recipe_path, msg, arg) ==
    [st EXCEPT !.warnings = Append(@, Entry(recipe_path, msg, arg))]

\* An exception leaves the method: nothing after it runs.
Raise(st, exc) == [st EXCEPT !.raised = exc]

\* recipe_path.split(os.sep): the segments between the "/" tokens.
RECURSIVE SplitPath(_, _)
SplitPath(path, cur) ==
    IF path = <<>> THEN <<cur>>
    ELSE IF Head(path) = "/" THEN <<cur>> \o SplitPath(Tail(path), <<>>)
         ELSE SplitPath(Tail(path), Append(cur, Head(path)))

path_parts(recipe_path) == SplitPath(recipe_path, <<>>)

\* os.path.basename(recipe_path)
basename(recipe_path) == path_parts(recipe_path)[Len(path_parts(recipe_path))]

DIRECT_SUFFIX == <<".", "fleet", ".", "direct", ".", "recipe", ".", "yaml">>
GITOPS_SUFFIX == <<".", "fleet", ".", "gitops", ".", "recipe", ".", "yaml">>
DIRECT_TOKEN == <<".", "direct", ".">>
GITOPS_TOKEN == <<".", "gitops", ".">>
EXPECTED_PREFIX == <<"com", ".", "github", ".", "fleet", ".">>

\* The condition of validate_filename.
filename_ok(recipe_path) ==
    \/ EndsWith(basename(recipe_path), DIRECT_SUFFIX)
    \/ EndsWith(basename(recipe_path), GITOPS_SUFFIX)

validate_filename(st, recipe_path) ==
    IF ~filename_ok(recipe_path)
    THEN AddError(st, recipe_path,
             "Filename must end with .fleet.direct.recipe.yaml or .fleet.gitops.recipe.yaml",
             <<>>)
    ELSE st

validate_vendor_folder(st, recipe_path) ==
    LET parts == path_parts(recipe_path) IN
    IF Len(parts) < 2
    THEN AddError(st, recipe_path, "Recipe must be in a vendor folder", <<>>)
    ELSE LET vendor_folder == parts[Len(parts) - 1] IN
         IF Contains(vendor_folder, <<" ">>)
         THEN AddError(st, recipe_path, "Vendor folder contains spaces", vendor_folder)
         ELSE st

REQUIRED_FIELDS == <<"Description", "Identifier", "Input", "Process">>

\* field in data, for a mapping.
HasKey(data, field) ==
    CASE field = "Description" -> data.Description # "ABSENT"
      [] field = "Identifier" -> data.Identifier.tag # "ABSENT"
      [] field = "Input" -> data.Input.tag # "ABSENT"
      [] field = "Process" -> data.Process.tag # "ABSENT"

\* "field not in data" raises TypeError for None and for a number, is a
\* membership test on a list and a substring test on a string (neither holds
\* the field names here), and a key test on a mapping.
validate_required_fields(st, recipe_path, data) ==
    IF data.kind \in {"null", "int"} THEN Raise(st, "TypeError")
    ELSE LET missing ==
                 IF data.kind = "map"
                 THEN SelectSeq(REQUIRED_FIELDS, LAMBDA f : ~HasKey(data, f))
                 ELSE REQUIRED_FIELDS
         IN  IF missing # <<>>
             THEN AddError(st, recipe_path, "Missing required AutoPkg fields", missing)
             ELSE st

validate_identifier(st, recipe_path, data, is_gitops, is_direct) ==
    IF data.kind # "map" THEN Raise(st, "AttributeError")
    ELSE
    \* data.get("Identifier", ""): None for a null value, "" for an absent key
    LET id == data.Identifier
        falsy == id.tag \in {"ABSENT", "NULL"} \/ (id.tag = "STR" /\ id.val = <<>>)
    IN
    IF falsy THEN AddError(st, recipe_path, "Missing Identifier field", <<>>)
    ELSE IF id.tag # "STR" THEN Raise(st, "AttributeError")
    ELSE IF ~StartsWith(id.val, EXPECTED_PREFIX)
    THEN AddError(st, recipe_path, "Identifier must start with 'com.github.fleet.'", id.val)
    ELSE LET has_direct_id == Contains(id.val, DIRECT_TOKEN)
             has_gitops_id == Contains(id.val, GITOPS_TOKEN)
         IN  IF is_direct /\ ~has_direct_id
             THEN AddError(st, recipe_path,
                      "Direct recipe identifier must contain '.direct.'", id.val)
             ELSE IF is_gitops /\ ~has_gitops_id
             THEN AddError(st, recipe_path,
                      "GitOps recipe identifier must contain '.gitops.'", id.val)
             ELSE st

\* "FleetImporter" in processor
ProcessorNamesFleetImporter(processor) ==
    processor \in {"FleetImporter", "com.github.fleet.FleetImporter/FleetImporter"}

validate_single_processor(st, recipe_path, data) ==
    \* data.get("Process", []): None for a null value
    LET p == data.Process
        process_list == IF p.tag = "LIST" THEN p.stages ELSE <<>>
    IN
    IF process_list = <<>>
    THEN AddError(st, recipe_path, "Missing Process section", <<>>)
    ELSE
    LET s1 == IF Len(process_list) # 1
              THEN AddWarning(st, recipe_path,
                       "Process has N processors (style guide recommends single FleetImporter processor)",
                       <<ToString(Len(process_list))>>)
              ELSE st
        has_fleet_importer ==
            \E i \in 1..Len(process_list) :
                /\ process_list[i].kind = "map"
                /\ ProcessorNamesFleetImporter(process_list[i].Processor)
    IN  IF ~has_fleet_importer
        THEN AddError(s1, recipe_path, "FleetImporter processor not found in Process", <<>>)
        ELSE s1

validate_name(st, recipe_path, input_section) ==
    IF input_section.NAME \in {"ABSENT", "NULL"}
    THEN AddError(st, recipe_path, "Missing NAME in Input section", <<>>)
    ELSE st

\* Mutant: a missing SELF_SERVICE is reported like a wrong one as well.
validate_self_service_twice(st, recipe_path, input_section) ==
    LET self_service == input_section.SELF_SERVICE
        s1 == IF self_service \in {"ABSENT", "NULL"}
              THEN AddError(st, recipe_path, "Missing SELF_SERVICE in Input section", <<>>)
              ELSE st
    IN  IF self_service # "True"
        THEN AddError(s1, recipe_path, "SELF_SERVICE must be set to true", <<self_service>>)
        ELSE s1

validate_self_service(st, recipe_path, input_section) ==
    LET self_service == input_section.SELF_SERVICE IN
    IF self_service \in {"ABSENT", "NULL"}
    THEN AddError(st, recipe_path, "Missing SELF_SERVICE in Input section", <<>>)
    ELSE IF self_service # "True"
    THEN AddError(st, recipe_path, "SELF_SERVICE must be set to true", <<self_service>>)
    ELSE st

validate_automatic_install(st, recipe_path, input_section) ==
    LET automatic_install == input_section.AUTOMATIC_INSTALL IN
    IF automatic_install \in {"ABSENT", "NULL"}
    THEN AddError(st, recipe_path, "Missing AUTOMATIC_INSTALL in Input section", <<>>)
    ELSE IF automatic_install # "False"
    THEN AddError(st, recipe_path, "AUTOMATIC_INSTALL must be set to false",
             <<automatic_install>>)
    ELSE st

validate_gitops_software_dir(st, recipe_path, input_section) ==
    LET software_dir == input_section.FLEET_GITOPS_SOFTWARE_DIR IN
    IF software_dir \in {"ABSENT", "NULL"}
    THEN AddError(st, recipe_path, "Missing FLEET_GITOPS_SOFTWARE_DIR in Input section", <<>>)
    ELSE IF software_dir # "lib/macos/software"
    THEN AddError(st, recipe_path, "FLEET_GITOPS_SOFTWARE_DIR must be 'lib/macos/software'",
             <<software_dir>>)
    ELSE st

validate_gitops_team_yaml_path(st, recipe_path, input_section) ==
    LET team_yaml_path == input_section.FLEET_GITOPS_TEAM_YAML_PATH IN
    IF team_yaml_path \in {"ABSENT", "NULL"}
    THEN AddError(st, recipe_path, "Missing FLEET_GITOPS_TEAM_YAML_PATH in Input section", <<>>)
    ELSE IF team_yaml_path # "teams/workstations.yml"
    THEN AddError(st, recipe_path,
             "FLEET_GITOPS_TEAM_YAML_PATH must be 'teams/workstations.yml'",
             <<team_yaml_path>>)
    ELSE st

IsUnsupportedCategory(category) == category \notin SUPPORTED_CATEGORIES

\* Mutant: the error names every entry of the list, not the invalid ones.
validate_categories_names_all(st, recipe_path, input_section) ==
    LET categories == IF input_section.CATEGORIES.present
                      THEN input_section.CATEGORIES.items ELSE <<>>
    IN
    IF categories = <<>> THEN st
    ELSE IF SelectSeq(categories, IsUnsupportedCategory) # <<>>
         THEN AddError(st, recipe_path, "Invalid categories", categories)
         ELSE st

validate_categories(st, recipe_path, input_section) ==
    \* input_section.get("CATEGORIES", []): an absent key and an empty list alike
    LET categories == IF input_section.CATEGORIES.present
                      THEN input_section.CATEGORIES.items ELSE <<>>
    IN
    IF categories = <<>> THEN st
    ELSE LET invalid_categories == SelectSeq(categories, IsUnsupportedCategory) IN
         IF invalid_categories # <<>>
         THEN AddError(st, recipe_path, "Invalid categories", invalid_categories)
         ELSE st

validate_process_arguments(st, recipe_path, args, is_gitops) ==
    LET s1 == IF args.self_service # "%SELF_SERVICE%"
              THEN AddError(st, recipe_path,
                       "Process argument 'self_service' must be '%SELF_SERVICE%'",
                       <<args.self_service>>)
              ELSE st
        s2 == IF args.automatic_install # "%AUTOMATIC_INSTALL%"
              THEN AddError(s1, recipe_path,
                       "Process argument 'automatic_install' must be '%AUTOMATIC_INSTALL%'",
                       <<args.automatic_install>>)
              ELSE s1
        s3 == IF is_gitops /\ args.gitops_software_dir # "%FLEET_GITOPS_SOFTWARE_DIR%"
              THEN AddError(s2, recipe_path,
                       "Process argument 'gitops_software_dir' must be '%FLEET_GITOPS_SOFTWARE_DIR%'",
                       <<args.gitops_software_dir>>)
              ELSE s2
        s4 == IF is_gitops /\ args.gitops_team_yaml_path # "%FLEET_GITOPS_TEAM_YAML_PATH%"
              THEN AddError(s3, recipe_path,
                       "Process argument 'gitops_team_yaml_path' must be '%FLEET_GITOPS_TEAM_YAML_PATH%'",
                       <<args.gitops_team_yaml_path>>)
              ELSE s3
    IN  s4

\* not input_section: None, or a mapping without keys.
InputIsFalsy(inp) ==
    \/ inp.tag \in {"ABSENT", "NULL"}
    \/ /\ inp.tag = "MAP"
       /\ inp.NAME = "ABSENT"
       /\ inp.SELF_SERVICE = "ABSENT"
       /\ inp.AUTOMATIC_INSTALL = "ABSENT"
       /\ inp.FLEET_GITOPS_SOFTWARE_DIR = "ABSENT"
       /\ inp.FLEET_GITOPS_TEAM_YAML_PATH = "ABSENT"
       /\ ~inp.CATEGORIES.present

\* args of a stage without an Arguments key: {}, every .get() is None.
NoArguments ==
    [tag |-> "ABSENT", self_service |-> "ABSENT", automatic_install |-> "ABSENT",
     gitops_software_dir |-> "ABSENT", gitops_team_yaml_path |-> "ABSENT"]

\* The part of validate_recipe after the identifier and processor rules
\* (lines 102-129): the Input rules and the first stage's arguments.
validate_input_and_arguments(st, recipe_path, data, is_gitops) ==
    LET input_section == data.Input IN
    IF InputIsFalsy(input_section)
    THEN AddError(st, recipe_path, "Missing Input section", <<>>)
    ELSE IF input_section.tag # "MAP" THEN Raise(st, "AttributeError")
    ELSE
    LET s1 == validate_name(st, recipe_path, input_section)
        s2 == validate_self_service(s1, recipe_path, input_section)
        s3 == validate_automatic_install(s2, recipe_path, input_section)
        s4 == IF is_gitops
              THEN validate_gitops_team_yaml_path(
                       validate_gitops_software_dir(s3, recipe_path, input_section),
                       recipe_path, input_section)
              ELSE s3
        s5 == validate_categories(s4, recipe_path, input_section)
        process_list == IF data.Process.tag = "LIST" THEN data.Process.stages ELSE <<>>
    IN  IF process_list = <<>> THEN s5
        ELSE IF process_list[1].kind # "map" THEN Raise(s5, "AttributeError")
        ELSE IF process_list[1].Arguments.tag = "NULL" THEN Raise(s5, "AttributeError")
        ELSE validate_process_arguments(s5, recipe_path, process_list[1].Arguments,
                                        is_gitops)

\* The mode counters of validate_recipe (lines 91-94).
count_mode(st, is_gitops, is_direct) ==
    IF is_gitops THEN [st EXCEPT !.gitops_count = @ + 1]
    ELSE IF is_direct THEN [st EXCEPT !.direct_count = @ + 1]
    ELSE st

\* ".gitops." in recipe_path / ".direct." in recipe_path (lines 88-89)
path_is_gitops(recipe_path) == Contains(recipe_path, GITOPS_TOKEN)
path_is_direct(recipe_path) == Contains(recipe_path, DIRECT_TOKEN)

\* validate_recipe on a file whose content parsed to data (lines 84-131).
validate_parsed(st, recipe_path, data) ==
    LET s1 == validate_required_fields(st, recipe_path, data) IN
    IF s1.raised # "none" THEN s1
    ELSE
    LET is_gitops == path_is_gitops(recipe_path)
        is_direct == path_is_direct(recipe_path)
        s2 == count_mode(s1, is_gitops, is_direct)
        s3 == validate_identifier(s2, recipe_path, data, is_gitops, is_direct)
    IN  IF s3.raised # "none" THEN s3
        ELSE validate_input_and_arguments(
                 validate_single_processor(s3, recipe_path, data),
                 recipe_path, data, is_gitops)

\* Mutant: the except branches do not return, and the rules run on the data.
validate_recipe_no_return(st, recipe_path, file) ==
    LET s0 == [st EXCEPT !.recipe_count = @ + 1]
        s1 == validate_filename(s0, recipe_path)
        s2 == validate_vendor_folder(s1, recipe_path)
    IN  CASE file.parse = "YAMLError" ->
                 validate_parsed(AddError(s2, recipe_path, "YAML syntax error", <<>>),
                                 recipe_path, file.data)
          [] file.parse = "Exception" ->
                 validate_parsed(AddError(s2, recipe_path, "Failed to parse YAML", <<>>),
                                 recipe_path, file.data)
          [] OTHER -> validate_parsed(s2, recipe_path, file.data)

\* validate_recipe(recipe_path), file being what open() and yaml.safe_load() give.
validate_recipe(st, recipe_path, file) ==
    LET s0 == [st EXCEPT !.recipe_count = @ + 1]
        s1 == validate_filename(s0, recipe_path)
        s2 == validate_vendor_folder(s1, recipe_path)
    IN  CASE file.parse = "YAMLError" ->
                 AddError(s2, recipe_path, "YAML syntax error", <<>>)
          [] file.parse = "Exception" ->
                 AddError(s2, recipe_path, "Failed to parse YAML", <<>>)
          [] OTHER -> validate_parsed(s2, recipe_path, file.data)

\* Mutant: warnings fail the run too.
report_results_strict(st) ==
    IF st.errors = <<>> /\ st.warnings = <<>> THEN 0 ELSE 1

\* report_results' return value.
report_results(st) ==
    IF st.errors = <<>> /\ st.warnings = <<>> THEN 0
    ELSE IF st.errors # <<>> THEN 1
    ELSE 0

----------------------------------------------------------------------------
(* The inputs.                                                             *)

MaxTextLen == 4      \* slugify's texts
MaxChunks == 3       \* chunks of a template
MaxTitleLen == 2     \* titles given to format_policy_name
MaxStrLen == 3       \* the strings given to build_version_query
MaxCategories == 2   \* entries of Input.CATEGORIES
MaxStages == 2       \* stages of Process
MaxRecipes == 2      \* validate_recipe calls of one run

TextAlphabet == {"A", "b", "1", "_", "-", " ", "!"}
Texts == SeqsUpTo(TextAlphabet, MaxTextLen)

\* Templates are built from chunks, so that whole, split and overlapping
\* placeholders occur within a few chunks.
TemplateChunks ==
    {PLACEHOLDER, <<"%", "N", "A">>, <<"M", "E", "%">>, <<"N", "A", "M", "E", "%">>,
     <<"A">>, <<"b", "-">>}
Templates == {Flatten(cs) : cs \in SeqsUpTo(TemplateChunks, MaxChunks)}
TitleAlphabet == {"A", "b", " ", "!"}
Titles == SeqsUpTo(TitleAlphabet, MaxTitleLen)

QueryAlphabet == {"'", "a", ";"}
QueryStrings == SeqsUpTo(QueryAlphabet, MaxStrLen)

\* Recipe paths.
DirectPath == <<"Acme", "/", "App">> \o DIRECT_SUFFIX
GitopsPath == <<"Acme", "/", "App">> \o GITOPS_SUFFIX
RootPath == <<"App">> \o DIRECT_SUFFIX
SpacePath == <<"Acme", " ", "Inc", "/", "App">> \o GITOPS_SUFFIX
LegacyPath == <<"Acme", "/", "App", ".", "fleet", ".", "recipe", ".", "yaml">>
NoFleetPath == <<"Acme", "/", "App", ".", "gitops", ".", "recipe", ".", "yaml">>
BothTokensPath == <<"Acme", "/", "App", ".", "gitops">> \o DIRECT_SUFFIX
DottedVendorPath == <<"Acme", ".", "direct", ".", "d", "/", "App">> \o GITOPS_SUFFIX
RootLegacyPath == <<"App", ".", "recipe", ".", "yaml">>
Paths == {DirectPath, GitopsPath, RootPath, SpacePath, LegacyPath, NoFleetPath,
          BothTokensPath, DottedVendorPath, RootLegacyPath}

\* Identifier values: absent, null, a number, and strings.
Ident(tag, val) == [tag |-> tag, val |-> val]
DirectIdent == Ident("STR", EXPECTED_PREFIX \o <<"direct", ".", "App">>)
GitopsIdent == Ident("STR", EXPECTED_PREFIX \o <<"gitops", ".", "App">>)
IdentVals ==
    {Ident("ABSENT", <<>>), Ident("NULL", <<>>), Ident("STR", <<>>), Ident("INT", <<"5">>),
     DirectIdent, GitopsIdent,
     Ident("STR", EXPECTED_PREFIX \o <<"App">>),
     Ident("STR", <<"com", ".", "example", ".", "direct", ".", "App">>),
     Ident("STR", EXPECTED_PREFIX \o <<"direct", ".", "gitops", ".", "App">>)}

\* Input values.
CategoryNames == {"Browsers", "Gaming", "Utilities"}
CategoryVals ==
    {[present |-> FALSE, items |-> <<>>]}
    \cup {[present |-> TRUE, items |-> c] : c \in SeqsUpTo(CategoryNames, MaxCategories)}
InputMaps ==
    [tag : {"MAP"},
     NAME : {"ABSENT", "NULL", "App"},
     SELF_SERVICE : {"ABSENT", "True", "False", "true"},
     AUTOMATIC_INSTALL : {"ABSENT", "True", "False"},
     FLEET_GITOPS_SOFTWARE_DIR : {"ABSENT", "lib/macos/software", "software"},
     FLEET_GITOPS_TEAM_YAML_PATH : {"ABSENT", "teams/workstations.yml", "teams/other.yml"},
     CATEGORIES : CategoryVals]
InputOther(tag) ==
    [tag |-> tag, NAME |-> "ABSENT", SELF_SERVICE |-> "ABSENT",
     AUTOMATIC_INSTALL |-> "ABSENT", FLEET_GITOPS_SOFTWARE_DIR |-> "ABSENT",
     FLEET_GITOPS_TEAM_YAML_PATH |-> "ABSENT",
     CATEGORIES |-> [present |-> FALSE, items |-> <<>>]]
GoodInput ==
    [tag |-> "MAP", NAME |-> "App", SELF_SERVICE |-> "True",
     AUTOMATIC_INSTALL |-> "False", FLEET_GITOPS_SOFTWARE_DIR |-> "lib/macos/software",
     FLEET_GITOPS_TEAM_YAML_PATH |-> "teams/workstations.yml",
     CATEGORIES |-> [present |-> TRUE, items |-> <<"Browsers">>]]
ModeInputs ==
    {[GoodInput EXCEPT !.SELF_SERVICE = s, !.FLEET_GITOPS_SOFTWARE_DIR = d,
                       !.FLEET_GITOPS_TEAM_YAML_PATH = t] :
        s \in {"ABSENT", "True"},
        d \in {"ABSENT", "lib/macos/software", "software"},
        t \in {"ABSENT", "teams/workstations.yml", "teams/other.yml"}}
InputVals == InputMaps \cup {InputOther("ABSENT"), InputOther("NULL"), InputOther("STR")}
FewInputs ==
    {InputOther("ABSENT"), InputOther("NULL"), InputOther("MAP"), InputOther("STR"),
     GoodInput}

\* Process values.
ArgMaps ==
    [tag : {"MAP"},
     self_service : {"ABSENT", "%SELF_SERVICE%", "true"},
     automatic_install : {"%AUTOMATIC_INSTALL%", "false"},
     gitops_software_dir : {"ABSENT", "%FLEET_GITOPS_SOFTWARE_DIR%"},
     gitops_team_yaml_path : {"ABSENT", "%FLEET_GITOPS_TEAM_YAML_PATH%"}]
GoodArguments ==
    [tag |-> "MAP", self_service |-> "%SELF_SERVICE%",
     automatic_install |-> "%AUTOMATIC_INSTALL%",
     gitops_software_dir |-> "%FLEET_GITOPS_SOFTWARE_DIR%",
     gitops_team_yaml_path |-> "%FLEET_GITOPS_TEAM_YAML_PATH%"]
ArgVals == ArgMaps \cup {NoArguments, [NoArguments EXCEPT !.tag = "NULL"]}
\* A stage that is not a mapping (a bare string in the list).
StringStage == [kind |-> "str", Processor |-> "ABSENT", Arguments |-> NoArguments]
Stage(processor, args) == [kind |-> "map", Processor |-> processor, Arguments |-> args]
FirstStages ==
    {StringStage}
    \cup {Stage(p, a) : p \in {"ABSENT", "FleetImporter", "URLDownloader"}, a \in ArgVals}
LaterStages ==
    {StringStage, Stage("FleetImporter", NoArguments), Stage("URLDownloader", NoArguments)}
Process(tag, stages) == [tag |-> tag, stages |-> stages]
ProcessLists ==
    {Process("LIST", <<f>> \o rest) :
        f \in FirstStages, rest \in SeqsUpTo(LaterStages, MaxStages - 1)}
GoodProcess == Process("LIST", <<Stage("FleetImporter", GoodArguments)>>)
ProcessVals ==
    ProcessLists \cup {Process("ABSENT", <<>>), Process("NULL", <<>>), Process("LIST", <<>>)}
FewProcesses ==
    {Process("ABSENT", <<>>), Process("NULL", <<>>), Process("LIST", <<>>), GoodProcess,
     Process("LIST", <<Stage("FleetImporter", [GoodArguments EXCEPT !.self_service = "true"])>>)}

\* Parsed documents: what yaml.safe_load returned.
Doc(kind, description, identifier, inp, process) ==
    [kind |-> kind, Description |-> description, Identifier |-> identifier,
     Input |-> inp, Process |-> process]
\* An empty file (None), a bare number, a bare string, a top-level list.
NonMapDoc(kind) ==
    Doc(kind, "ABSENT", Ident("ABSENT", <<>>), InputOther("ABSENT"), Process("ABSENT", <<>>))
Parsed(data) == [parse |-> "ok", data |-> data]
ParseFailure(exc) == [parse |-> exc, data |-> NonMapDoc("null")]
Call(recipe_path, file) == [recipe_path |-> recipe_path, file |-> file]

\* The calls of a run of several recipes.
GoodDoc(identifier, process) == Doc("map", "SET", identifier, GoodInput, process)
RunPaths == {DirectPath, GitopsPath, NoFleetPath, BothTokensPath, LegacyPath}
RunFiles ==
    {ParseFailure("YAMLError"),
     Parsed(GoodDoc(DirectIdent, GoodProcess)),
     Parsed(GoodDoc(GitopsIdent, GoodProcess)),
     Parsed(GoodDoc(DirectIdent,
         Process("LIST", <<Stage("FleetImporter", GoodArguments),
                           Stage("URLDownloader", NoArguments)>>))),
     Parsed(NonMapDoc("null"))}
RunCalls == {Call(p, f) : p \in RunPaths, f \in RunFiles}

\* The files of a run of validate_all_recipes.  sorted() orders str values by
\* the code points of their characters, so the tokens of a path are spelled out.
Spell(token) ==
    CASE token = "Acme" -> <<"A", "c", "m", "e">>
      [] token = "acme" -> <<"a", "c", "m", "e">>
      [] token = "App" -> <<"A", "p", "p">>
      [] token = "Inc" -> <<"I", "n", "c">>
      [] token = "fleet" -> <<"f", "l", "e", "e", "t">>
      [] token = "direct" -> <<"d", "i", "r", "e", "c", "t">>
      [] token = "gitops" -> <<"g", "i", "t", "o", "p", "s">>
      [] token = "recipe" -> <<"r", "e", "c", "i", "p", "e">>
      [] token = "yaml" -> <<"y", "a", "m", "l">>
      [] token = "FleetImporter"
             -> <<"F", "l", "e", "e", "t", "I", "m", "p", "o", "r", "t", "e", "r">>
      [] OTHER -> <<token>>
CodePoint(c) ==
    CASE c = " " -> 32 [] c = "." -> 46 [] c = "/" -> 47
      [] c = "A" -> 65 [] c = "F" -> 70 [] c = "I" -> 73
      [] c = "a" -> 97 [] c = "c" -> 99 [] c = "d" -> 100 [] c = "e" -> 101
      [] c = "f" -> 102 [] c = "g" -> 103 [] c = "i" -> 105 [] c = "l" -> 108
      [] c = "m" -> 109 [] c = "n" -> 110 [] c = "o" -> 111 [] c = "p" -> 112
      [] c = "r" -> 114 [] c = "s" -> 115 [] c = "t" -> 116 [] c = "y" -> 121

\* The characters of a path.
path_text(recipe_path) == Flatten([i \in 1..Len(recipe_path) |-> Spell(recipe_path[i])])

\* a < b on str: at the first place where they differ a has the smaller code
\* point, or a ends there.
str_lt(a, b) ==
    \E i \in 1..Len(b) :
        /\ i <= Len(a) + 1
        /\ \A j \in 1..(i - 1) : a[j] = b[j]
        /\ (i = Len(a) + 1 \/ CodePoint(a[i]) < CodePoint(b[i]))

\* Mutant: the loop takes the files in the order glob found them.
unsorted(files) == files

\* sorted(recipe_files): ascending by path, equal paths in their given order.
sorted(files) ==
    LET key(i) == path_text(files[i].recipe_path)
        Before(j, i) == str_lt(key(j), key(i)) \/ (key(j) = key(i) /\ j < i)
    IN  [k \in 1..Len(files) |->
            files[CHOOSE i \in 1..Len(files) :
                      Cardinality({j \in 1..Len(files) : Before(j, i)}) = k - 1]]

\* [f for f in recipe_files if "FleetImporter" not in f]
exclude_fleetimporter(files) ==
    SelectSeq(files,
        LAMBDA f : ~Contains(path_text(f.recipe_path), Spell("FleetImporter")))

MaxFiles == 3        \* files glob finds in one run

LowerVendorPath == <<"acme", "/", "App">> \o DIRECT_SUFFIX
ProcessorPath == <<"FleetImporter", "/", "FleetImporter", ".", "recipe", ".", "yaml">>
FoundPaths == {DirectPath, GitopsPath, SpacePath, LowerVendorPath, ProcessorPath}
TwoStages ==
    Process("LIST", <<Stage("FleetImporter", GoodArguments),
                      Stage("URLDownloader", NoArguments)>>)
FoundFiles ==
    {ParseFailure("YAMLError"),
     Parsed(GoodDoc(DirectIdent, TwoStages)),
     Parsed(Doc("map", "ABSENT", Ident("ABSENT", <<>>), InputOther("ABSENT"),
                Process("LIST", <<Stage("URLDownloader", NoArguments), StringStage>>)))}
\* What glob can return: distinct paths in any order, each with its content.
Found(n) ==
    {[i \in 1..n |-> Call(ps[i], fs[i])] :
        ps \in {q \in [1..n -> FoundPaths] : \A i, j \in 1..n : q[i] = q[j] => i = j},
        fs \in [1..n -> FoundFiles]}

----------------------------------------------------------------------------
(* update_recipes.py.  The text of a recipe file is a sequence of lines.   *)

\* INPUT_PATTERN and ARGS_PATTERN: two lines, one after the other.
INPUT_PATTERN == <<"  # Mode selector", "  gitops_mode: false">>
ARGS_PATTERN ==
    <<"    # GitOps-specific options",
      "    gitops_software_dir: \"%FLEET_GITOPS_SOFTWARE_DIR%\"">>

\* INPUT_REPLACEMENT and ARGS_REPLACEMENT: the new lines, then \1, the match.
INPUT_REPLACEMENT ==
    <<"  # Optional: Auto-update policy automation",
      "  AUTO_UPDATE_ENABLED: false",
      "  AUTO_UPDATE_POLICY_NAME: \"autopkg-auto-update-%NAME%\"",
      "">> \o INPUT_PATTERN
ARGS_REPLACEMENT ==
    <<"    # Optional: Auto-update policy automation",
      "    auto_update_enabled: \"%AUTO_UPDATE_ENABLED%\"",
      "    auto_update_policy_name: \"%AUTO_UPDATE_POLICY_NAME%\"",
      "">> \o ARGS_PATTERN

\* pattern.sub(replacement, content): every match, found from the top and not
\* overlapping an earlier one, gives way to the replacement.
RECURSIVE pattern_sub(_, _, _)
pattern_sub(pattern, replacement, lines) ==
    IF Len(lines) < Len(pattern) THEN lines
    ELSE IF SubSeq(lines, 1, Len(pattern)) = pattern
    THEN replacement \o pattern_sub(pattern, replacement,
                                    SubSeq(lines, Len(pattern) + 1, Len(lines)))
    ELSE <<Head(lines)>> \o pattern_sub(pattern, replacement, Tail(lines))

\* "AUTO_UPDATE_ENABLED" in line
HasMarker(line) ==
    line \in {"  AUTO_UPDATE_ENABLED: false",
              "    auto_update_enabled: \"%AUTO_UPDATE_ENABLED%\""}

\* "AUTO_UPDATE_ENABLED" in content
already_updated(lines) == \E i \in 1..Len(lines) : HasMarker(lines[i])

\* update_recipe(recipe_path): the text written back and the value returned.
update_recipe(lines) ==
    IF already_updated(lines)
    THEN [content |-> lines, result |-> FALSE]
    ELSE [content |-> pattern_sub(ARGS_PATTERN, ARGS_REPLACEMENT,
                          pattern_sub(INPUT_PATTERN, INPUT_REPLACEMENT, lines)),
          result |-> TRUE]

MaxLines == 4        \* lines of a recipe file before the first run
MaxRuns == 3         \* calls of update_recipe on one file

RecipeLines ==
    {INPUT_PATTERN[1], INPUT_PATTERN[2], ARGS_PATTERN[1], ARGS_PATTERN[2],
     "  NAME: App", "  AUTO_UPDATE_ENABLED: false"}
RecipeTexts == SeqsUpTo(RecipeLines, MaxLines)

----------------------------------------------------------------------------
(* States and actions.                                                     *)

\* The validator object as a record, and back.
Self ==
    [errors |-> errors, warnings |-> warnings, recipe_count |-> recipe_count,
     direct_count |-> direct_count, gitops_count |-> gitops_count, raised |-> raised]

InitBuilder ==
    /\ text = <<>> /\ template = <<>> /\ software_title = <<>> /\ version = <<>>
    /\ slug = <<>> /\ reslug = <<>> /\ policy_name = <<>> /\ query = <<>>
    /\ bpc = "idle"

\* StyleGuideValidator() : __init__
InitValidator ==
    /\ errors = NewValidator.errors
    /\ warnings = NewValidator.warnings
    /\ recipe_count = NewValidator.recipe_count
    /\ direct_count = NewValidator.direct_count
    /\ gitops_count = NewValidator.gitops_count
    /\ raised = NewValidator.raised
    /\ exit_code = -1
    /\ calls = <<>>

\* Before validate_all_recipes and update_recipe have been called: no file found,
\* none to validate, no file text read, nothing returned.
InitIdle ==
    /\ recipe_files = <<>> /\ todo = <<>> /\ run_pc = "idle"
    /\ content = <<>> /\ returned = <<>>

\* validator.validate_recipe(c.recipe_path) on a file with content c.file.
ValidateRecipe(c) ==
    /\ raised = "none"
    /\ exit_code = -1
    /\ \E r \in {validate_recipe(Self, c.recipe_path, c.file)} :
        /\ errors' = r.errors
        /\ warnings' = r.warnings
        /\ recipe_count' = r.recipe_count
        /\ direct_count' = r.direct_count
        /\ gitops_count' = r.gitops_count
        /\ raised' = r.raised
    /\ calls' = Append(calls, c)
    /\ UNCHANGED <<exit_code, builder_vars, run_vars, updater_vars>>

\* validator.report_results()
ReportResults ==
    /\ raised = "none"
    /\ exit_code = -1
    /\ exit_code' = report_results(Self)
    /\ UNCHANGED <<errors, warnings, recipe_count, direct_count, gitops_count,
                   raised, calls, builder_vars, run_vars, updater_vars>>

\* A run: recipes validated one after the other, then the report.
Init == InitBuilder /\ InitValidator /\ InitIdle
Next ==
    \/ Len(calls) < MaxRecipes /\ \E c \in RunCalls : ValidateRecipe(c)
    \/ ReportResults
Spec == Init /\ [][Next]_vars

\* validate_all_recipes, lines 47-52: glob, the FleetImporter filter, and the
\* sorted() of the loop header.
ValidateAllRecipes ==
    /\ run_pc = "idle"
    /\ calls = <<>>
    /\ \E n \in 0..MaxFiles : \E found \in Found(n) :
        /\ recipe_files' = found
        /\ todo' = sorted(exclude_fleetimporter(found))
    /\ run_pc' = "loop"
    /\ UNCHANGED <<validator_vars, builder_vars, updater_vars>>

\* validate_all_recipes, lines 54-55: one turn of the loop.
ValidateNextRecipe ==
    /\ run_pc = "loop"
    /\ todo # <<>>
    /\ raised = "none"
    /\ \E r \in {validate_recipe(Self, Head(todo).recipe_path, Head(todo).file)} :
        /\ errors' = r.errors
        /\ warnings' = r.warnings
        /\ recipe_count' = r.recipe_count
        /\ direct_count' = r.direct_count
        /\ gitops_count' = r.gitops_count
        /\ raised' = r.raised
    /\ calls' = Append(calls, Head(todo))
    /\ todo' = Tail(todo)
    /\ UNCHANGED <<exit_code, recipe_files, run_pc, builder_vars, updater_vars>>

\* validate_all_recipes, line 57: return self.report_results()
ReturnReport ==
    /\ run_pc = "loop"
    /\ todo = <<>>
    /\ ReportResults

NextAll == ValidateAllRecipes \/ ValidateNextRecipe \/ ReturnReport
SpecAll == Init /\ [][NextAll]_vars

\* update_recipe on the same file, run after run.
InitUpdate ==
    /\ InitBuilder /\ InitValidator
    /\ recipe_files = <<>> /\ todo = <<>> /\ run_pc = "idle"
    /\ content \in RecipeTexts
    /\ returned = <<>>
UpdateRecipe ==
    /\ Len(returned) < MaxRuns
    /\ \E r \in {update_recipe(content)} :
        /\ content' = r.content
        /\ returned' = Append(returned, r.result)
    /\ UNCHANGED <<builder_vars, validator_vars, run_vars>>
SpecUpdate == InitUpdate /\ [][UpdateRecipe]_vars

\* One validate_recipe call on a new validator: every path with an unparsable
\* file, with a document that is no mapping, and with every combination of
\* top-level keys; the two well-named paths with every Input and every Process.
ValidateUnparsable ==
    \E p \in Paths, e \in {"YAMLError", "Exception"} :
        ValidateRecipe(Call(p, ParseFailure(e)))
ValidateNonMapping ==
    \E p \in Paths, k \in {"null", "int", "str", "list"} :
        ValidateRecipe(Call(p, Parsed(NonMapDoc(k))))
ValidateTopLevel ==
    \E p \in Paths, d \in {"ABSENT", "SET"}, id \in IdentVals,
       inp \in FewInputs, pr \in FewProcesses :
        ValidateRecipe(Call(p, Parsed(Doc("map", d, id, inp, pr))))
ValidateInputs ==
    \E p \in {DirectPath, GitopsPath}, inp \in InputVals, pr \in FewProcesses :
        ValidateRecipe(Call(p, Parsed(Doc("map", "SET", DirectIdent, inp, pr))))
ValidateProcesses ==
    \E p \in {DirectPath, GitopsPath}, inp \in FewInputs, pr \in ProcessVals :
        ValidateRecipe(Call(p, Parsed(Doc("map", "SET", GitopsIdent, inp, pr))))
\* Every path and every Identifier with the Inputs that differ from a complete
\* one in SELF_SERVICE and in the two GitOps variables.
ValidateModeInputs ==
    \E p \in Paths, id \in IdentVals, inp \in ModeInputs, pr \in FewProcesses :
        ValidateRecipe(Call(p, Parsed(Doc("map", "SET", id, inp, pr))))
NextRecipe ==
    \/ calls = <<>> /\ ValidateUnparsable
    \/ calls = <<>> /\ ValidateNonMapping
    \/ calls = <<>> /\ ValidateTopLevel
    \/ calls = <<>> /\ ValidateInputs
    \/ calls = <<>> /\ ValidateProcesses
    \/ calls = <<>> /\ ValidateModeInputs
SpecRecipe == Init /\ [][NextRecipe]_vars

\* slugify(text), then slugify of the result.
InitSlug ==
    /\ InitValidator /\ InitIdle
    /\ text \in Texts
    /\ template = <<>> /\ software_title = <<>> /\ version = <<>>
    /\ slug = <<>> /\ reslug = <<>> /\ policy_name = <<>> /\ query = <<>>
    /\ bpc = "start"
Slugify ==
    /\ bpc = "start"
    /\ slug' = slugify(text)
    /\ bpc' = "slugged"
    /\ UNCHANGED <<text, template, software_title, version, reslug, policy_name,
                   query, validator_vars, run_vars, updater_vars>>
SlugifyAgain ==
    /\ bpc = "slugged"
    /\ reslug' = slugify(slug)
    /\ bpc' = "reslugged"
    /\ UNCHANGED <<text, template, software_title, version, slug, policy_name,
                   query, validator_vars, run_vars, updater_vars>>
NextSlug == Slugify \/ SlugifyAgain
SpecSlug == InitSlug /\ [][NextSlug]_vars

\* format_policy_name(template, software_title)
InitFormat ==
    /\ InitValidator /\ InitIdle
    /\ template \in Templates
    /\ software_title \in Titles
    /\ text = <<>> /\ version = <<>>
    /\ slug = <<>> /\ reslug = <<>> /\ policy_name = <<>> /\ query = <<>>
    /\ bpc = "start"
FormatPolicyName ==
    /\ bpc = "start"
    /\ policy_name' = format_policy_name(template, software_title)
    /\ bpc' = "formatted"
    /\ UNCHANGED <<text, template, software_title, version, slug, reslug, query,
                   validator_vars, run_vars, updater_vars>>
SpecFormat == InitFormat /\ [][FormatPolicyName]_vars

\* build_version_query(software_title, version)
InitQuery ==
    /\ InitValidator /\ InitIdle
    /\ software_title \in QueryStrings
    /\ version \in QueryStrings
    /\ text = <<>> /\ template = <<>>
    /\ slug = <<>> /\ reslug = <<>> /\ policy_name = <<>> /\ query = <<>>
    /\ bpc = "start"
BuildVersionQuery ==
    /\ bpc = "start"
    /\ query' = build_version_query(software_title, version)
    /\ bpc' = "built"
    /\ UNCHANGED <<text, template, software_title, version, slug, reslug,
                   policy_name, validator_vars, run_vars, updater_vars>>
SpecQuery == InitQuery /\ [][BuildVersionQuery]_vars

----------------------------------------------------------------------------
(* Properties.                                                             *)

\* C1: once report_results has returned, its value is 0 exactly when the errors
\* list is empty, whatever the warnings, and 1 whenever there is an error.
C1_ExitCodeIffNoErrors ==
    exit_code # -1 =>
        /\ (exit_code = 0) <=> (errors = <<>>)
        /\ errors # <<>> => exit_code = 1

\* A run with warnings and no error has reported success.
C1_Witness == exit_code = 0 /\ errors = <<>> /\ Len(warnings) >= 2 /\ recipe_count = 2

\* The places of the quotes of q, in ascending order.
QuotePlaces(q) ==
    LET Q == {i \in 1..Len(q) : q[i] = QUOTE} IN
    [k \in 1..Cardinality(Q) |-> CHOOSE i \in Q : Cardinality({j \in Q : j < i}) = k - 1]

\* The content of a literal, decoded: two adjacent quotes stand for one.
RECURSIVE SqlDecode(_)
SqlDecode(raw) ==
    IF raw = <<>> THEN <<>>
    ELSE IF Head(raw) = QUOTE /\ Len(raw) >= 2
    THEN <<QUOTE>> \o SqlDecode(Tail(Tail(raw)))
    ELSE <<Head(raw)>> \o SqlDecode(Tail(raw))

\* A scan of q by the rules of SQL string literals: a quote opens a literal;
\* inside it two adjacent quotes stand for one quote character and a lone quote
\* closes it.  The scan steps from quote to quote (qs[k] is the place of the
\* k-th one, from the place where the current literal or outside text began).
\* Gives the decoded literals in order, the text outside them, and whether a
\* literal is still open at the end.
RECURSIVE SqlScan(_, _, _, _, _, _)
SqlScan(q, qs, k, inside, from, acc) ==
    IF k > Len(qs)
    THEN IF inside THEN [acc EXCEPT !.open = TRUE]
         ELSE [acc EXCEPT !.outside = @ \o SubSeq(q, from, Len(q))]
    ELSE IF ~inside
    THEN SqlScan(q, qs, k + 1, TRUE, qs[k] + 1,
                 [acc EXCEPT !.outside = @ \o SubSeq(q, from, qs[k] - 1)])
    ELSE IF k < Len(qs) /\ qs[k + 1] = qs[k] + 1
    THEN SqlScan(q, qs, k + 2, TRUE, from, acc)
    ELSE SqlScan(q, qs, k + 1, FALSE, qs[k] + 1,
                 [acc EXCEPT !.literals =
                      Append(@, SqlDecode(SubSeq(q, from, qs[k] - 1)))])

SqlLiterals(q) ==
    SqlScan(q, QuotePlaces(q), 1, FALSE, 1,
            [literals |-> <<>>, outside |-> <<>>, open |-> FALSE])

\* The template's text outside its two literals.
QueryOutsideText ==
    SubSeq(QUERY_HEAD, 1, Len(QUERY_HEAD) - 1) \o SubSeq(QUERY_MID, 2, Len(QUERY_MID) - 1)

\* C2: the query scans as exactly two closed literals whose decoded values are
\* the title and the version, and the text outside them is the template's.
C2_LiteralsDecodeToInputs ==
    bpc = "built" =>
        LET scan == SqlLiterals(query) IN
        /\ scan.literals = <<software_title, version>>
        /\ ~scan.open
        /\ scan.outside = QueryOutsideText

\* A title that ends with a quote and a version that starts with one and holds
\* a statement separator.
C2_Witness ==
    /\ bpc = "built"
    /\ software_title = <<"a", "'">>
    /\ version = <<"'", ";", "a">>

\* s with every quote doubled and every other character kept, in order.
QuotesDoubled(s) ==
    Flatten([i \in 1..Len(s) |-> IF s[i] = QUOTE THEN <<QUOTE, QUOTE>> ELSE <<s[i]>>])

\* C3: the query is the template around the two values with their quotes
\* doubled, and holds 4 + 2*count(title) + 2*count(version) quotes.
C3_QueryIsTemplateWithDoubledQuotes ==
    bpc = "built" =>
        /\ query = QUERY_HEAD \o QuotesDoubled(software_title) \o QUERY_MID
                       \o QuotesDoubled(version) \o QUERY_TAIL
        /\ Count(query, QUOTE) =
               4 + 2 * Count(software_title, QUOTE) + 2 * Count(version, QUOTE)

\* Two adjacent quotes in the title and one in the version: ten quotes in all.
C3_Witness ==
    /\ bpc = "built"
    /\ software_title = <<"'", "'", "a">>
    /\ version = <<"a", "'">>
    /\ Count(query, QUOTE) = 10

\* A lowercase word character other than the underscore: one that \w matches
\* and str.lower() leaves as it is.
IsLowerWordChar(c) == IsWord(c) /\ c # "_" /\ Lower(c) = c

C5_SlugifyIdempotent == bpc = "reslugged" => reslug = slug

\* slugify has been applied twice, the first time changing the text.
C5_Witness ==
    /\ bpc = "reslugged"
    /\ text = <<"_", "A", " ", "b">>
    /\ slug = <<"a", "-", "b">>
    /\ reslug = slug

\* The places of tpl where the placeholder starts.
Occurrences(tpl) ==
    {i \in 1..(Len(tpl) - Len(PLACEHOLDER) + 1) :
        SubSeq(tpl, i, i + Len(PLACEHOLDER) - 1) = PLACEHOLDER}

\* starts covers place i of the template.
Covered(starts, i) == \E o \in starts : o <= i /\ i < o + Len(PLACEHOLDER)

\* The occurrences a left-to-right replacement takes: an occurrence is taken
\* unless it overlaps a taken one that starts before it.
Taken(tpl) ==
    CHOOSE S \in SUBSET Occurrences(tpl) :
        \A o \in Occurrences(tpl) :
            o \in S <=> ~\E t \in S : t < o /\ o < t + Len(PLACEHOLDER)

\* tpl with the occurrences starting at starts replaced by value, the rest kept.
Substituted(tpl, starts, value) ==
    Flatten([i \in 1..Len(tpl) |->
                IF i \in starts THEN value
                ELSE IF Covered(starts, i) THEN <<>> ELSE <<tpl[i]>>])

\* C6 as stated: the occurrences are replaced by the slug, a template without
\* placeholder comes back unchanged, and no placeholder is left in the result,
\* whatever the title.
C6_Original ==
    bpc = "formatted" =>
        /\ policy_name = Substituted(template, Taken(template), slugify(software_title))
        /\ Occurrences(template) = {} => policy_name = template
        /\ ~Contains(policy_name, PLACEHOLDER)

\* C6, amended: the occurrences found scanning from the left, each search
\* resuming after the previous match, are replaced by the slug and every other
\* character is kept; a template without placeholder comes back unchanged; no
\* placeholder is left when the slug is not empty.
C6_LeftmostOccurrencesReplaced ==
    bpc = "formatted" =>
        /\ policy_name = Substituted(template, Taken(template), slugify(software_title))
        /\ Occurrences(template) = {} => policy_name = template
        /\ slugify(software_title) # <<>> => ~Contains(policy_name, PLACEHOLDER)

\* Two placeholders replaced by the same non-empty slug, the template's other
\* text and case kept.
C6_Witness ==
    /\ bpc = "formatted"
    /\ template = PLACEHOLDER \o <<"A">> \o PLACEHOLDER
    /\ software_title = <<"A", "b">>
    /\ policy_name = <<"a", "b", "A", "a", "b">>

\* The number of entries of a report that satisfy Test.
CountEntries(report, Test(_)) == Cardinality({i \in 1..Len(report) : Test(report[i])})

IsParseError(e) == e.msg \in {"YAML syntax error", "Failed to parse YAML"}
IsFilenameError(e) ==
    e.msg = "Filename must end with .fleet.direct.recipe.yaml or .fleet.gitops.recipe.yaml"
IsVendorFolderError(e) ==
    e.msg \in {"Recipe must be in a vendor folder", "Vendor folder contains spaces"}

\* The paths of Paths that break the filename rule / the vendor folder rule.
BadlyNamedPaths == {LegacyPath, NoFleetPath, RootLegacyPath}
BadVendorPaths == {RootPath, SpacePath, RootLegacyPath}

\* The first call was made on a file that does not parse.
FirstCallUnparsable == calls # <<>> /\ calls[1].file.parse # "ok"

FirstCallRecipeShaped ==
    /\ calls # <<>>
    /\ calls[1].file.parse = "ok"
    /\ calls[1].file.data.kind = "map"
    /\ calls[1].file.data.Identifier.tag \in {"ABSENT", "NULL", "STR"}
    /\ calls[1].file.data.Input.tag \in {"ABSENT", "NULL", "MAP"}

\* C8: validate_recipe never raises on a parsed document, be a required key
\* absent, Process empty, the first stage without Arguments or with null
\* Arguments, or a stage no mapping.
C8_NeverRaises == FirstCallRecipeShaped => raised = "none"

\* The first call was made on a file that parsed to a mapping.
FirstCallMapping ==
    calls # <<>> /\ calls[1].file.parse = "ok" /\ calls[1].file.data.kind = "map"

\* The keys of REQUIRED_FIELDS that other rules need, and for each the message
\* of the rule that finds it missing.
PrerequisiteKeys == {"Identifier", "Input", "Process"}
MissingMessage(key) ==
    CASE key = "Identifier" -> "Missing Identifier field"
      [] key = "Input" -> "Missing Input section"
      [] key = "Process" -> "Missing Process section"
KeyAbsent(data, key) ==
    CASE key = "Identifier" -> data.Identifier.tag = "ABSENT"
      [] key = "Input" -> data.Input.tag = "ABSENT"
      [] key = "Process" -> data.Process.tag = "ABSENT"

\* The error entries that report key as missing.
AbsenceReports(key) ==
    {i \in 1..Len(errors) :
        \/ errors[i].msg = MissingMessage(key)
        \/ /\ errors[i].msg = "Missing required AutoPkg fields"
           /\ \E j \in 1..Len(errors[i].arg) : errors[i].arg[j] = key}

\* C9: a prerequisite key absent from the document is reported by exactly one
\* error entry.
C9_AbsenceReportedOnce ==
    \A key \in PrerequisiteKeys :
        (FirstCallMapping /\ KeyAbsent(calls[1].file.data, key)) =>
            Cardinality(AbsenceReports(key)) = 1

\* The calls, among those made, with a path of the given kind.
CallsWhere(Test(_)) == {i \in 1..Len(calls) : Test(calls[i].recipe_path)}
NamedDirect(recipe_path) == EndsWith(basename(recipe_path), DIRECT_SUFFIX)
NamedGitops(recipe_path) == EndsWith(basename(recipe_path), GITOPS_SUFFIX)

\* C10: the modes are exclusive and follow the filename rule: a well-named
\* recipe is inferred to be in exactly one mode, a recipe is counted in a mode
\* only if its filename is of that mode, and the two counters together never
\* exceed recipe_count.
C10_ModesFollowFilenameRule ==
    /\ direct_count + gitops_count <= recipe_count
    /\ \A i \in 1..Len(calls) :
           LET p == calls[i].recipe_path IN
           (NamedDirect(p) \/ NamedGitops(p)) =>
               /\ path_is_gitops(p) # path_is_direct(p)
               /\ path_is_gitops(p) = NamedGitops(p)
    /\ direct_count <= Cardinality(CallsWhere(NamedDirect))
    /\ gitops_count <= Cardinality(CallsWhere(NamedGitops))

IsModeMatchError(e) ==
    e.msg \in {"Direct recipe identifier must contain '.direct.'",
               "GitOps recipe identifier must contain '.gitops.'"}
IsSelfServiceBindingError(e) ==
    e.msg = "Process argument 'self_service' must be '%SELF_SERVICE%'"

\* The Identifier of the document is a non-empty string.
IdentifierPresent(data) == data.Identifier.tag = "STR" /\ data.Identifier.val # <<>>

\* The Process of the document has a first stage that is a mapping whose
\* Arguments are a mapping or absent.
HasFirstStageArguments(data) ==
    /\ data.Process.tag = "LIST"
    /\ data.Process.stages # <<>>
    /\ data.Process.stages[1].kind = "map"
    /\ data.Process.stages[1].Arguments.tag \in {"MAP", "ABSENT"}

\* C11: rules are evaluated whether or not earlier rules failed.  A document
\* whose Identifier lacks the token of its filename's mode gets the mode-match
\* error, whether or not the Identifier has the namespace prefix; a document
\* whose first stage binds self_service to anything but '%SELF_SERVICE%' gets
\* the binding error, whether or not the Input section is there.
C11_RulesIndependent ==
    (FirstCallRecipeShaped /\ raised = "none") =>
        LET p == calls[1].recipe_path
            data == calls[1].file.data
        IN  /\ ( /\ IdentifierPresent(data)
                 /\ \/ NamedDirect(p) /\ ~Contains(data.Identifier.val, DIRECT_TOKEN)
                    \/ NamedGitops(p) /\ ~Contains(data.Identifier.val, GITOPS_TOKEN) )
                   => CountEntries(errors, IsModeMatchError) = 1
            /\ ( /\ HasFirstStageArguments(data)
                 /\ data.Process.stages[1].Arguments.self_service # "%SELF_SERVICE%" )
                   => CountEntries(errors, IsSelfServiceBindingError) = 1

\* The first call was made on a file that parsed to a mapping whose Input is a
\* mapping with some key but without SELF_SERVICE, and whose Identifier is a
\* string, null or absent.
FirstCallLacksSelfService ==
    /\ FirstCallMapping
    /\ calls[1].file.data.Input.tag = "MAP"
    /\ ~InputIsFalsy(calls[1].file.data.Input)
    /\ calls[1].file.data.Input.SELF_SERVICE \in {"ABSENT", "NULL"}
    /\ calls[1].file.data.Identifier.tag # "INT"

\* The entries whose text has SELF_SERVICE in it.
IsMissingSelfServiceError(e) == e.msg = "Missing SELF_SERVICE in Input section"
IsWrongSelfServiceError(e) == e.msg = "SELF_SERVICE must be set to true"
MentionsSelfService(e) ==
    \/ IsMissingSelfServiceError(e)
    \/ IsWrongSelfServiceError(e)
    \/ IsSelfServiceBindingError(e)

FirstCallHasInput ==
    /\ FirstCallMapping
    /\ calls[1].file.data.Input.tag = "MAP"
    /\ ~InputIsFalsy(calls[1].file.data.Input)
    /\ calls[1].file.data.Identifier.tag # "INT"

IsCategoriesError(e) == e.msg = "Invalid categories"
FourCategories == {"Browsers", "Communication", "Developer tools", "Productivity"}
IsOutsideFour(category) == category \notin FourCategories

\* C13: for a document with a non-empty Input there is exactly one categories
\* error when some entry of Input.CATEGORIES is outside the four supported
\* categories, and it names exactly the unsupported entries in their original
\* order; there is none when CATEGORIES is absent, empty or all supported.
C13_CategoriesErrorNamesUnsupported ==
    FirstCallHasInput =>
        LET c == calls[1].file.data.Input.CATEGORIES
            entries == IF c.present THEN c.items ELSE <<>>
            unsupported == SelectSeq(entries, IsOutsideFour)
        IN  IF unsupported # <<>>
            THEN /\ CountEntries(errors, IsCategoriesError) = 1
                 /\ \A i \in 1..Len(errors) :
                        IsCategoriesError(errors[i]) => errors[i].arg = unsupported
            ELSE CountEntries(errors, IsCategoriesError) = 0

\* A gitops recipe with CATEGORIES ["Browsers", "Gaming"]: one error, naming
\* "Gaming" only.
C13_Witness ==
    /\ FirstCallHasInput
    /\ calls[1].recipe_path = GitopsPath
    /\ calls[1].file.data.Input.CATEGORIES = [present |-> TRUE, items |-> <<"Browsers", "Gaming">>]
    /\ CountEntries(errors, IsCategoriesError) = 1
    /\ \E i \in 1..Len(errors) :
           IsCategoriesError(errors[i]) /\ errors[i].arg = <<"Gaming">>

IsAutomaticInstallBindingError(e) ==
    e.msg = "Process argument 'automatic_install' must be '%AUTOMATIC_INSTALL%'"
IsSoftwareDirBindingError(e) ==
    e.msg = "Process argument 'gitops_software_dir' must be '%FLEET_GITOPS_SOFTWARE_DIR%'"
IsTeamYamlPathBindingError(e) ==
    e.msg = "Process argument 'gitops_team_yaml_path' must be '%FLEET_GITOPS_TEAM_YAML_PATH%'"
IsBindingError(e) ==
    \/ IsSelfServiceBindingError(e)
    \/ IsAutomaticInstallBindingError(e)
    \/ IsSoftwareDirBindingError(e)
    \/ IsTeamYamlPathBindingError(e)

\* 1 when the binding differs from the placeholder it has to be, else 0.
Mismatch(binding, placeholder) == IF binding # placeholder THEN 1 ELSE 0

\* C14: for a document whose Process has a first stage, validated without an
\* exception under a well-formed direct or gitops filename, there is one
\* process-argument error per mismatched binding: self_service and
\* automatic_install in both modes, gitops_software_dir and
\* gitops_team_yaml_path in gitops mode only.
C14_OneErrorPerMismatchedBinding ==
    ( /\ FirstCallRecipeShaped
      /\ raised = "none"
      /\ calls[1].recipe_path \in {DirectPath, GitopsPath}
      /\ HasFirstStageArguments(calls[1].file.data) ) =>
        LET args == calls[1].file.data.Process.stages[1].Arguments
            gitops == calls[1].recipe_path = GitopsPath
        IN  /\ CountEntries(errors, IsSelfServiceBindingError)
                   = Mismatch(args.self_service, "%SELF_SERVICE%")
            /\ CountEntries(errors, IsAutomaticInstallBindingError)
                   = Mismatch(args.automatic_install, "%AUTOMATIC_INSTALL%")
            /\ CountEntries(errors, IsSoftwareDirBindingError)
                   = IF gitops
                     THEN Mismatch(args.gitops_software_dir, "%FLEET_GITOPS_SOFTWARE_DIR%")
                     ELSE 0
            /\ CountEntries(errors, IsTeamYamlPathBindingError)
                   = IF gitops
                     THEN Mismatch(args.gitops_team_yaml_path, "%FLEET_GITOPS_TEAM_YAML_PATH%")
                     ELSE 0

IsStageCountWarning(e) ==
    e.msg = "Process has N processors (style guide recommends single FleetImporter processor)"
IsMissingProcessError(e) == e.msg = "Missing Process section"

\* C15: the single-processor rule is advisory.  For a parsed document whose
\* Process is a list, a number of stages other than 1 gives exactly one warning
\* of this rule and no error for the number of stages, and exactly one stage
\* gives no warning of this rule.
C15_StageCountIsAdvisory ==
    (FirstCallRecipeShaped /\ calls[1].file.data.Process.tag = "LIST") =>
        LET n == Len(calls[1].file.data.Process.stages) IN
        /\ CountEntries(errors, IsStageCountWarning) = 0
        /\ CountEntries(errors, IsMissingProcessError) = 0
        /\ CountEntries(warnings, IsStageCountWarning) = IF n # 1 THEN 1 ELSE 0

\* The paths of Paths whose filename has one of the two suffixes and whose
\* text has the token of that mode only.
PlainDirectPaths == {DirectPath, RootPath}
PlainGitopsPaths == {GitopsPath, SpacePath}

\* C16: for a recipe whose Identifier is present, the mode-match rule reports
\* an error exactly when the Identifier does not contain the token of the mode
\* of the filename: an Identifier with that token never gets the error, one
\* without it (so one with the other mode's token only) always does.
C16_ModeMatchIffTokenMissing ==
    ( /\ FirstCallMapping
      /\ IdentifierPresent(calls[1].file.data)
      /\ calls[1].recipe_path \in PlainDirectPaths \cup PlainGitopsPaths ) =>
        LET identifier == calls[1].file.data.Identifier.val
            token == IF calls[1].recipe_path \in PlainDirectPaths
                     THEN DIRECT_TOKEN ELSE GITOPS_TOKEN
        IN  CountEntries(errors, IsModeMatchError) =
                IF Contains(identifier, token) THEN 0 ELSE 1

IsSoftwareDirInputError(e) ==
    e.msg \in {"Missing FLEET_GITOPS_SOFTWARE_DIR in Input section",
               "FLEET_GITOPS_SOFTWARE_DIR must be 'lib/macos/software'"}
IsTeamYamlPathInputError(e) ==
    e.msg \in {"Missing FLEET_GITOPS_TEAM_YAML_PATH in Input section",
               "FLEET_GITOPS_TEAM_YAML_PATH must be 'teams/workstations.yml'"}
IsAboutGitopsVariables(e) ==
    \/ IsSoftwareDirInputError(e)
    \/ IsTeamYamlPathInputError(e)
    \/ IsSoftwareDirBindingError(e)
    \/ IsTeamYamlPathBindingError(e)

\* C17: the two GitOps input rules apply in gitops mode only.  A recipe whose
\* filename ends with the direct suffix gets no error about
\* FLEET_GITOPS_SOFTWARE_DIR or FLEET_GITOPS_TEAM_YAML_PATH; a recipe with a
\* gitops filename and a non-empty Input gets one error for each of the two
\* variables that is missing or differs from its literal, none for one equal
\* to it.
C17_GitopsRulesInGitopsModeOnly ==
    FirstCallMapping =>
        LET p == calls[1].recipe_path
            inp == calls[1].file.data.Input
        IN  /\ NamedDirect(p) => CountEntries(errors, IsAboutGitopsVariables) = 0
            /\ (NamedGitops(p) /\ FirstCallHasInput) =>
                   /\ CountEntries(errors, IsSoftwareDirInputError) =
                          Mismatch(inp.FLEET_GITOPS_SOFTWARE_DIR, "lib/macos/software")
                   /\ CountEntries(errors, IsTeamYamlPathInputError) =
                          Mismatch(inp.FLEET_GITOPS_TEAM_YAML_PATH, "teams/workstations.yml")

\* The paths of the entries of a report, in the report's order.
EntryPaths(report) == [i \in 1..Len(report) |-> path_text(report[i].file)]

\* No later element of the sequence of texts is smaller than an earlier one.
Ascending(texts) ==
    \A i, j \in 1..Len(texts) : i < j => ~str_lt(texts[j], texts[i])

\* C18: validate_all_recipes validates the files in ascending path order, one
\* after the other: in errors and in warnings the paths of the entries never
\* descend (so the entries of one file are contiguous, those of a smaller path
\* first), the calls are made in strictly ascending path order whatever the
\* order in which glob found the files, and when the report is returned every
\* file found outside FleetImporter has been validated.
C18_EntriesInPathOrder ==
    /\ Ascending(EntryPaths(errors))
    /\ Ascending(EntryPaths(warnings))
    /\ \A i, j \in 1..Len(calls) :
           i < j => str_lt(path_text(calls[i].recipe_path), path_text(calls[j].recipe_path))
    /\ \A i \in 1..Len(calls) : \E k \in 1..Len(recipe_files) : recipe_files[k] = calls[i]
    /\ exit_code # -1 =>
           \A k \in 1..Len(recipe_files) :
               \/ Contains(recipe_files[k].recipe_path, <<"FleetImporter">>)
               \/ \E i \in 1..Len(calls) : calls[i] = recipe_files[k]

\* glob found three files in descending path order, one of them FleetImporter's
\* own; the report was returned with several entries for each validated file,
\* those of the smaller path first.
C18_Witness ==
    /\ exit_code = 1
    /\ Len(recipe_files) = 3
    /\ recipe_files[1].recipe_path = LowerVendorPath
    /\ recipe_files[2].recipe_path = ProcessorPath
    /\ recipe_files[3].recipe_path = SpacePath
    /\ Len(calls) = 2
    /\ Len(errors) >= 4
    /\ errors[1].file = SpacePath /\ errors[2].file = SpacePath
    /\ errors[Len(errors)].file = LowerVendorPath
    /\ errors[Len(errors) - 1].file = LowerVendorPath
    /\ Len(warnings) = 2

\* update_recipe has returned True for the file.
ReportedUpdated == \E i \in 1..Len(returned) : returned[i]

\* C19: update_recipe updates a file at most once: once it has returned True
\* for the file, every later call returns False and leaves the text of the
\* file as it is.
C19_UpdatedAtMostOnce ==
    [][ReportedUpdated => (returned' = Append(returned, FALSE) /\ content' = content)]_vars

============================================================================
